---- MODULE Spec2Model ----
(***************************************************************************)
(* A model of the splits-io-api client core.                               *)
(*                                                                         *)
(*   src/src/lib.rs              Client (token), get_response, get_json,    *)
(*                               ApiError                                   *)
(*   src/src/platform/native.rs  native Client::connect_ws                  *)
(*   src/src/platform/wasm.rs    embedded Client::connect_ws and WsStream   *)
(*                                                                         *)
(* Strings are sequences of characters; a character is a one-symbol TLA+   *)
(* string, "LF" stands for the line feed byte.  A JSON document is kept as *)
(* its parse tree, with the members of an object in document order.        *)
(***************************************************************************)
EXTENDS Integers, Sequences, FiniteSets, TLC

\* ------------------------------------------------------------------ bounds
\* longest argument given to set_access_token
MaxTokenLen == 1
\* most Authorization values a caller puts on a request
MaxAuthVals == 2
\* most members of a JSON object, most elements of a JSON array
MaxPairs == 2
\* most events the host fires on one WebSocket object
MaxEvents == 4
\* most explicit close() calls on one WsStream
MaxCloseCalls == 2
\* most start_send calls on one WsStream
MaxSends == 1
\* headers of one request handed to the embedded request
MaxHeaders == 2
\* bytes of one header value
MaxValueLen == 1
\* headers of one response the host fetch resolves with
MaxRespHeaders == 1

VARIABLES
    \* ---- lib.rs / native.rs: one client, one call at a time
    access_token,       \* Client::access_token : Option<String>
    last_arg,           \* the argument of the latest set_access_token call, if any
    pc,                 \* "idle" | "awaiting" | "upgrading" | "done"
    fn,                 \* the function in progress
    req_in,             \* the header map of the request as the caller built it
    in_flight,          \* the header map handed to the transport
    response,           \* what the transport answered
    result,             \* what the function returned
    upgrade_attempted,  \* native connect_ws reached on_upgrade()
    \* ---- wasm.rs: one WebSocket object and the stream made from it
    connect_pc,         \* "init" | "select" | "returned_ok" | "returned_err" | "panicked"
    ws_handlers,        \* events with a callback registered on the host object
    ws_close_calls,     \* how often WebSocket::close was invoked
    ws_sends,           \* how often WebSocket::send_with_str was invoked
    closures,           \* the Closure objects not yet dropped
    once_taken,         \* the FnOnce closures whose body was moved out by a call
    chan_open,          \* oneshot (tx_open, rx_open)
    chan_close,         \* oneshot (tx_close, rx_close)
    chan_err,           \* oneshot (tx_err, rx_err)
    msg_queue,          \* mpsc (tx_message, rx_message)
    stream,             \* "none" | "live" | "dropped"
    connected,          \* WsStream::connected
    fired,              \* the events the host fired, in order
    faults,             \* panics and host exceptions raised so far
    last_poll,          \* what the latest poll_next returned
    yielded,            \* the items poll_next yielded, in order
    \* ---- wasm.rs: one call of the embedded Client::request at a time
    fetch_pc,           \* "idle" | "headers" | "fetching" | "reading" | "done"
    fetch_req,          \* the header pairs of the request, in iteration order
    host_headers,       \* the pairs appended to the host's Headers object
    fetch_calls,        \* how often the host fetch was invoked for this request
    web_response,       \* the host Response the fetch resolved with
    fetch_result        \* what request returned

clientVars == <<access_token, last_arg, pc, fn, req_in, in_flight, response,
                result, upgrade_attempted>>
wsVars == <<connect_pc, ws_handlers, ws_close_calls, ws_sends, closures,
            once_taken, chan_open, chan_close, chan_err, msg_queue, stream,
            connected, fired, faults, last_poll, yielded>>
fetchVars == <<fetch_pc, fetch_req, host_headers, fetch_calls, web_response,
               fetch_result>>
vars == <<clientVars, wsVars, fetchVars>>

\* ------------------------------------------------------------------ strings
RECURSIVE SeqsUpTo(_, _)
SeqsUpTo(S, n) ==
    IF n = 0 THEN {<<>>}
    ELSE LET shorter == SeqsUpTo(S, n - 1)
         IN  shorter \cup {Append(s, x) : s \in {t \in shorter : Len(t) = n - 1}, x \in S}

BearerPrefix == <<"B", "e", "a", "r", "e", "r", " ">>

\* bytes a header value may not hold (control characters)
CtlChars == {"LF"}
TokenChars == {"a", "LF"}
TokenArgs == SeqsUpTo(TokenChars, MaxTokenLen)

None == [some |-> FALSE, val |-> <<>>]
Some(s) == [some |-> TRUE, val |-> s]

\* String::clear
StrClear(buf) == <<>>

\* a set_access_token that forgets buf.clear()
set_access_token_noclear(tok, arg) ==
    LET buf0 == IF tok.some THEN tok.val ELSE <<>>
    IN  Some((buf0 \o BearerPrefix) \o arg)

\* Client::set_access_token: the new value of the access_token field
set_access_token(tok, arg) ==
    LET buf0 == IF tok.some THEN tok.val ELSE <<>>
        buf1 == StrClear(buf0)
        buf2 == buf1 \o BearerPrefix
        buf3 == buf2 \o arg
    IN  Some(buf3)

\* ------------------------------------------------------------------ headers
HeaderNames == {"authorization", "accept", "connection", "upgrade",
                "sec-websocket-version", "sec-websocket-key"}
NoHeaders == [n \in HeaderNames |-> <<>>]

\* values a caller may have put on its request
CallerAuthValues == {<<"o", "l", "d">>, <<"B", "e", "a", "r", "e", "r", " ", "a">>}
CallerRequests ==
    {[NoHeaders EXCEPT !["authorization"] = a, !["accept"] = c] :
        a \in SeqsUpTo(CallerAuthValues, MaxAuthVals),
        c \in {<<>>, << <<"j", "s", "o", "n">> >>}}

\* str::parse::<HeaderValue>: fails on a control character, else the same bytes
ParseHeaderValue(s) ==
    IF \E i \in 1..Len(s) : s[i] \in CtlChars
    THEN [ok |-> FALSE, val |-> <<>>]
    ELSE [ok |-> TRUE, val |-> s]

\* a HeaderMap::insert that appends, as HeaderMap::append does
HeaderAppend(h, name, v) == [h EXCEPT ![name] = Append(@, v)]

\* HeaderMap::insert: the value replaces every value of that name
HeaderInsert(h, name, v) == [h EXCEPT ![name] = <<v>>]

\* an injection that inserts the token's bytes without parsing them
InjectAuthUnparsed(tok, h) ==
    IF tok.some THEN HeaderInsert(h, "authorization", tok.val) ELSE h

\* get_response, before the transport: the token goes into Authorization
InjectAuth(tok, h) ==
    IF tok.some
    THEN LET parsed == ParseHeaderValue(tok.val)
         IN  IF parsed.ok THEN HeaderInsert(h, "authorization", parsed.val) ELSE h
    ELSE h

\* ------------------------------------------------------------------ JSON
JsonKeys == {"error", "message", "id"}
JsonVals == {[t |-> "str", s |-> "X"], [t |-> "str", s |-> "Y"], [t |-> "num", s |-> "7"]}
JsonPairs == {[k |-> k, v |-> v] : k \in JsonKeys, v \in JsonVals}

Doc(kind, pairs, items) == [kind |-> kind, pairs |-> pairs, items |-> items]
EmptyBody == Doc("empty", <<>>, <<>>)
Bodies ==
    {EmptyBody, Doc("malformed", <<>>, <<>>), Doc("scalar", <<>>, <<>>)}
    \cup {Doc("object", p, <<>>) : p \in SeqsUpTo(JsonPairs, MaxPairs)}
    \cup {Doc("array", <<>>, i) : i \in SeqsUpTo(JsonVals, MaxPairs)}

DecodeFail == [ok |-> FALSE, val |-> ""]
DecodeOk(s) == [ok |-> TRUE, val |-> s]

\* a visit_map that keeps the first value of the field and skips later ones
RECURSIVE VisitMapFirstWins(_, _, _)
VisitMapFirstWins(pairs, names, acc) ==
    IF pairs = <<>>
    THEN IF acc.some THEN DecodeOk(acc.val) ELSE DecodeFail
    ELSE LET p == Head(pairs)
         IN  IF p.k \in names /\ ~acc.some
             THEN IF p.v.t # "str" THEN DecodeFail
                  ELSE VisitMapFirstWins(Tail(pairs), names, Some(p.v.s))
             ELSE VisitMapFirstWins(Tail(pairs), names, acc)

\* the derived visit_map of a struct with one Box<str> field known under `names`
RECURSIVE VisitMap(_, _, _)
VisitMap(pairs, names, acc) ==
    IF pairs = <<>>
    THEN IF acc.some THEN DecodeOk(acc.val) ELSE DecodeFail      \* missing field
    ELSE LET p == Head(pairs)
         IN  IF p.k \in names
             THEN IF acc.some THEN DecodeFail                     \* duplicate field
                  ELSE IF p.v.t # "str" THEN DecodeFail           \* invalid type
                  ELSE VisitMap(Tail(pairs), names, Some(p.v.s))
             ELSE VisitMap(Tail(pairs), names, acc)               \* ignored member

\* the derived visit_seq of the same struct, and serde_json's end of sequence
VisitSeq(items) ==
    IF Len(items) = 1 /\ items[1].t = "str" THEN DecodeOk(items[1].s) ELSE DecodeFail

\* serde_json::from_reader into a struct with one Box<str> field
DecodeStruct(body, names) ==
    IF body.kind = "object" THEN VisitMap(body.pairs, names, None)
    ELSE IF body.kind = "array" THEN VisitSeq(body.items)
    ELSE DecodeFail

\* struct ApiError { #[serde(alias = "message")] error: Box<str> }
ApiErrorFields == {"error", "message"}
\* the shape a get_json caller asks for: a struct with the one field `id`
RequestedFields == {"id"}

\* ------------------------------------------------------------------ responses
Statuses == {101, 200, 204, 404, 500}
SWITCHING_PROTOCOLS == 101

\* what the transport answers: a failure, or a response head with a body that
\* buffers (body_ok) or fails while being read
TransportErr == [ok |-> FALSE, status |-> 0, body |-> EmptyBody, body_ok |-> FALSE]
Outcomes ==
    {TransportErr}
    \cup {[ok |-> TRUE, status |-> s, body |-> b, body_ok |-> TRUE] :
            s \in Statuses, b \in Bodies}
    \cup {[ok |-> TRUE, status |-> s, body |-> EmptyBody, body_ok |-> FALSE] :
            s \in Statuses}
NoResponse == [ok |-> FALSE, status |-> -1, body |-> EmptyBody, body_ok |-> FALSE]

Res(tag, status, message, consumed) ==
    [tag |-> tag, status |-> status, message |-> message, body_consumed |-> consumed]
NoResult == Res("None", 0, "", FALSE)

\* StatusCode::is_success
is_success(status) == 200 <= status /\ status < 300

\* a classification that reports every failure as a bare status
ClassifyFailureStatusOnly(resp) == Res("Status", resp.status, "", TRUE)

\* get_response on a non-success status: the two-tier fallback
ClassifyFailure(resp) ==
    IF resp.body_ok
    THEN LET error == DecodeStruct(resp.body, ApiErrorFields)
         IN  IF error.ok
             THEN Res("Api", resp.status, error.val, TRUE)
             ELSE Res("Status", resp.status, "", TRUE)
    ELSE Res("Status", resp.status, "", TRUE)

\* a get_response that reports a failed transport as a bare status
GetResponseResultNoDownload(resp) ==
    IF ~resp.ok THEN Res("Status", 0, "", FALSE)
    ELSE IF ~is_success(resp.status) THEN ClassifyFailure(resp)
    ELSE Res("Response", resp.status, "", FALSE)

\* get_response, after the transport
GetResponseResult(resp) ==
    IF ~resp.ok THEN Res("Download", 0, "", FALSE)
    ELSE IF ~is_success(resp.status) THEN ClassifyFailure(resp)
    ELSE Res("Response", resp.status, "", FALSE)

\* a get_json that reports a failed decode as a bare status
DecodeBodyAsStatus(resp) ==
    IF ~resp.body_ok THEN Res("Download", 0, "", TRUE)
    ELSE LET value == DecodeStruct(resp.body, RequestedFields)
         IN  IF value.ok THEN Res("Value", resp.status, value.val, TRUE)
             ELSE Res("Status", resp.status, "", TRUE)

\* get_json on the response get_response returned
DecodeBody(resp) ==
    IF ~resp.body_ok THEN Res("Download", 0, "", TRUE)
    ELSE LET value == DecodeStruct(resp.body, RequestedFields)
         IN  IF value.ok THEN Res("Value", resp.status, value.val, TRUE)
             ELSE Res("Json", resp.status, "", TRUE)

\* get_json
GetJsonResult(resp) ==
    LET r == GetResponseResult(resp)
    IN  IF r.tag = "Response" THEN DecodeBody(resp) ELSE r

\* ------------------------------------------------------------------ native request
\* a request that classifies the response the way get_response does
RequestResultClassified(resp) ==
    IF ~resp.ok THEN Res("Transport", 0, "", FALSE)
    ELSE IF ~is_success(resp.status) THEN ClassifyFailure(resp)
    ELSE Res("Response", resp.status, "", FALSE)

\* native Client::request: what the hyper client answered, untouched; the
\* error is hyper's own
RequestResult(resp) ==
    IF ~resp.ok THEN Res("Transport", 0, "", FALSE)
    ELSE Res("Response", resp.status, "", FALSE)

\* ------------------------------------------------------------------ native connect_ws
\* the handshake request native connect_ws builds
HandshakeRequest ==
    [NoHeaders EXCEPT !["connection"] = << <<"Upgrade">> >>,
                      !["upgrade"] = << <<"websocket">> >>,
                      !["sec-websocket-version"] = << <<"13">> >>,
                      !["sec-websocket-key"] = << <<"TotallyRandomBytesHere==">> >>]

\* the handshake answers: a transport failure or a response head
HandshakeOutcomes == {o \in Outcomes : o = TransportErr \/ (o.body_ok /\ o.body = EmptyBody)}

\* a handshake check that lets every success status through
HandshakeAcceptsSuccess(status) == status = SWITCHING_PROTOCOLS \/ is_success(status)

\* native connect_ws: status != StatusCode::SWITCHING_PROTOCOLS is rejected
HandshakeAccepts(status) == status = SWITCHING_PROTOCOLS

\* ------------------------------------------------------------------ client actions
InitClient ==
    /\ access_token = None
    /\ last_arg = None
    /\ pc = "idle"
    /\ fn = "none"
    /\ req_in = NoHeaders
    /\ in_flight = NoHeaders
    /\ response = NoResponse
    /\ result = NoResult
    /\ upgrade_attempted = FALSE

\* Client::set_access_token
SetAccessToken ==
    /\ UNCHANGED wsVars
    /\ UNCHANGED fetchVars
    /\ pc = "idle"
    /\ \E arg \in TokenArgs :
        /\ access_token' = set_access_token(access_token, arg)
        /\ last_arg' = Some(arg)
    /\ UNCHANGED <<pc, fn, req_in, in_flight, response, result, upgrade_attempted>>

\* get_response / get_json up to the await of client.request(request)
RequestSend ==
    /\ UNCHANGED wsVars
    /\ UNCHANGED fetchVars
    /\ pc = "idle"
    /\ \E f \in {"get_response", "get_json"}, req \in CallerRequests :
        /\ fn' = f
        /\ req_in' = req
        /\ in_flight' = InjectAuth(access_token, req)
    /\ pc' = "awaiting"
    /\ UNCHANGED <<access_token, last_arg, response, result, upgrade_attempted>>

\* get_response / get_json from the transport's answer to the return; the
\* request was moved into the transport and is gone
RequestComplete ==
    /\ UNCHANGED wsVars
    /\ UNCHANGED fetchVars
    /\ pc = "awaiting"
    /\ fn \in {"get_response", "get_json"}
    /\ \E o \in Outcomes :
        /\ response' = o
        /\ result' = IF fn = "get_response" THEN GetResponseResult(o) ELSE GetJsonResult(o)
    /\ req_in' = NoHeaders
    /\ in_flight' = NoHeaders
    /\ pc' = "done"
    /\ UNCHANGED <<access_token, last_arg, fn, upgrade_attempted>>

\* native Client::request up to the await of self.client.request(request)
NativeRequestSend ==
    /\ UNCHANGED wsVars
    /\ UNCHANGED fetchVars
    /\ pc = "idle"
    /\ \E req \in CallerRequests :
        /\ req_in' = req
        /\ in_flight' = req
    /\ fn' = "request"
    /\ pc' = "awaiting"
    /\ UNCHANGED <<access_token, last_arg, response, result, upgrade_attempted>>

\* native Client::request from the transport's answer to the return
NativeRequestComplete ==
    /\ UNCHANGED wsVars
    /\ UNCHANGED fetchVars
    /\ pc = "awaiting"
    /\ fn = "request"
    /\ \E o \in Outcomes :
        /\ response' = o
        /\ result' = RequestResult(o)
    /\ req_in' = NoHeaders
    /\ in_flight' = NoHeaders
    /\ pc' = "done"
    /\ UNCHANGED <<access_token, last_arg, fn, upgrade_attempted>>

\* native connect_ws up to the await of self.request(request)
ConnectWsSend ==
    /\ UNCHANGED wsVars
    /\ UNCHANGED fetchVars
    /\ pc = "idle"
    /\ fn' = "connect_ws"
    /\ req_in' = HandshakeRequest
    /\ in_flight' = HandshakeRequest
    /\ pc' = "awaiting"
    /\ UNCHANGED <<access_token, last_arg, response, result, upgrade_attempted>>

\* native connect_ws from the handshake answer to the await of on_upgrade()
ConnectWsHandshake ==
    /\ UNCHANGED wsVars
    /\ UNCHANGED fetchVars
    /\ pc = "awaiting"
    /\ fn = "connect_ws"
    /\ \E o \in HandshakeOutcomes :
        /\ response' = o
        /\ IF ~o.ok
           THEN /\ result' = Res("Download", 0, "", FALSE)
                /\ pc' = "done"
                /\ UNCHANGED upgrade_attempted
           ELSE IF ~HandshakeAccepts(o.status)
           THEN /\ result' = Res("Status", o.status, "", FALSE)
                /\ pc' = "done"
                /\ UNCHANGED upgrade_attempted
           ELSE /\ result' = NoResult
                /\ pc' = "upgrading"
                /\ upgrade_attempted' = TRUE
    /\ req_in' = NoHeaders
    /\ in_flight' = NoHeaders
    /\ UNCHANGED <<access_token, last_arg, fn>>

\* native connect_ws from the upgrade's outcome to the return
ConnectWsUpgrade ==
    /\ UNCHANGED wsVars
    /\ UNCHANGED fetchVars
    /\ pc = "upgrading"
    /\ \E upgraded \in BOOLEAN :
        result' = IF upgraded
                  THEN Res("Stream", response.status, "", TRUE)
                  ELSE Res("Download", 0, "", TRUE)
    /\ pc' = "done"
    /\ UNCHANGED <<access_token, last_arg, fn, req_in, in_flight, response, upgrade_attempted>>

\* the caller takes the result; the client is free for the next call
Return ==
    /\ UNCHANGED wsVars
    /\ UNCHANGED fetchVars
    /\ pc = "done"
    /\ pc' = "idle"
    /\ fn' = "none"
    /\ response' = NoResponse
    /\ result' = NoResult
    /\ upgrade_attempted' = FALSE
    /\ UNCHANGED <<access_token, last_arg, req_in, in_flight>>

\* ------------------------------------------------------------------ embedded WebSocket
\* The embedded backend is built for wasm32, where a panic does not unwind: it
\* traps, the host sees an exception thrown by the callback it called, nothing
\* on the panicking frame is dropped, and the instance goes on serving later
\* calls.  `faults` records each such panic and each host exception.
Events == {"open", "close", "message", "error"}

\* oneshot::Sender::send: the value is kept for the receiver, unless the
\* receiver is gone (the Err is ignored by `let _ =`)
OneshotSend(ch) == IF ch = "empty" THEN "sent" ELSE ch

\* a oneshot receiver polls Ready: a value was sent, or the sender was dropped
OneshotReady(ch) == ch \in {"sent", "cancelled"}

\* what the host does when it fires `ev`: nothing without a registered
\* callback, an exception when the Closure behind it was dropped, else a call
Dispatch(ev) ==
    IF ev \notin ws_handlers THEN "none"
    ELSE IF ev \notin closures THEN "destroyed"
    ELSE "call"

\* select(rx_open, rx_close): rx_open is polled first
SelectOutcome ==
    IF OneshotReady(chan_open) THEN "left"
    ELSE IF chan_close = "sent" THEN "right"
    ELSE IF chan_close = "cancelled" THEN "right_canceled"
    ELSE "pending"

InitWs ==
    /\ connect_pc = "init"
    /\ ws_handlers = {}
    /\ ws_close_calls = 0
    /\ ws_sends = 0
    /\ closures = {}
    /\ once_taken = {}
    /\ chan_open = "empty"
    /\ chan_close = "empty"
    /\ chan_err = "empty"
    /\ msg_queue = <<>>
    /\ stream = "none"
    /\ connected = FALSE
    /\ fired = <<>>
    /\ faults = {}
    /\ last_poll = "none"
    /\ yielded = <<>>

\* embedded connect_ws up to the await of select(rx_open, rx_close): the
\* socket, the four channels and closures, the four callbacks registered
ConnectWs ==
    /\ UNCHANGED clientVars
    /\ UNCHANGED fetchVars
    /\ connect_pc = "init"
    /\ connect_pc' = "select"
    /\ closures' = Events
    /\ ws_handlers' = Events
    /\ UNCHANGED <<ws_close_calls, ws_sends, once_taken, chan_open, chan_close,
                   chan_err, msg_queue, stream, connected, fired, faults,
                   last_poll, yielded>>

\* the host fires "open": on_open sends () on tx_open
HostOpen ==
    /\ UNCHANGED clientVars
    /\ UNCHANGED fetchVars
    /\ connect_pc # "init"
    /\ Len(fired) < MaxEvents
    /\ fired' = Append(fired, "open")
    /\ IF Dispatch("open") = "none"
       THEN UNCHANGED <<once_taken, chan_open, faults>>
       ELSE IF Dispatch("open") = "destroyed"
       THEN /\ faults' = faults \cup {"open: closure destroyed"}
            /\ UNCHANGED <<once_taken, chan_open>>
       ELSE IF "open" \in once_taken
       THEN /\ faults' = faults \cup {"open: FnOnce called more than once"}
            /\ UNCHANGED <<once_taken, chan_open>>
       ELSE /\ once_taken' = once_taken \cup {"open"}
            /\ chan_open' = OneshotSend(chan_open)
            /\ UNCHANGED faults
    /\ UNCHANGED <<connect_pc, ws_handlers, ws_close_calls, ws_sends, closures,
                   chan_close, chan_err, msg_queue, stream, connected,
                   last_poll, yielded>>

\* the host fires "close": on_close evaluates unimplemented!() for the value
\* to send and panics; tx_close, moved out of the closure, is neither used
\* nor dropped
HostClose ==
    /\ UNCHANGED clientVars
    /\ UNCHANGED fetchVars
    /\ connect_pc # "init"
    /\ Len(fired) < MaxEvents
    /\ fired' = Append(fired, "close")
    /\ IF Dispatch("close") = "none"
       THEN UNCHANGED <<once_taken, faults>>
       ELSE IF Dispatch("close") = "destroyed"
       THEN /\ faults' = faults \cup {"close: closure destroyed"}
            /\ UNCHANGED once_taken
       ELSE IF "close" \in once_taken
       THEN /\ faults' = faults \cup {"close: FnOnce called more than once"}
            /\ UNCHANGED once_taken
       ELSE /\ once_taken' = once_taken \cup {"close"}
            /\ faults' = faults \cup {"on_close: not implemented"}
    /\ UNCHANGED <<connect_pc, ws_handlers, ws_close_calls, ws_sends, closures,
                   chan_open, chan_close, chan_err, msg_queue, stream,
                   connected, last_poll, yielded>>

\* the host fires "error": on_err panics at unimplemented!() the same way
HostError ==
    /\ UNCHANGED clientVars
    /\ UNCHANGED fetchVars
    /\ connect_pc # "init"
    /\ Len(fired) < MaxEvents
    /\ fired' = Append(fired, "error")
    /\ IF Dispatch("error") = "none"
       THEN UNCHANGED <<once_taken, faults>>
       ELSE IF Dispatch("error") = "destroyed"
       THEN /\ faults' = faults \cup {"error: closure destroyed"}
            /\ UNCHANGED once_taken
       ELSE IF "error" \in once_taken
       THEN /\ faults' = faults \cup {"error: FnOnce called more than once"}
            /\ UNCHANGED once_taken
       ELSE /\ once_taken' = once_taken \cup {"error"}
            /\ faults' = faults \cup {"on_err: not implemented"}
    /\ UNCHANGED <<connect_pc, ws_handlers, ws_close_calls, ws_sends, closures,
                   chan_open, chan_close, chan_err, msg_queue, stream,
                   connected, last_poll, yielded>>

\* the host fires "message": on_message (an FnMut) panics at unimplemented!()
\* on every call, nothing reaches tx_message
HostMessage ==
    /\ UNCHANGED clientVars
    /\ UNCHANGED fetchVars
    /\ connect_pc # "init"
    /\ Len(fired) < MaxEvents
    /\ fired' = Append(fired, "message")
    /\ IF Dispatch("message") = "none"
       THEN UNCHANGED faults
       ELSE IF Dispatch("message") = "destroyed"
       THEN faults' = faults \cup {"message: closure destroyed"}
       ELSE faults' = faults \cup {"on_message: not implemented"}
    /\ UNCHANGED <<connect_pc, ws_handlers, ws_close_calls, ws_sends, closures,
                   once_taken, chan_open, chan_close, chan_err, msg_queue,
                   stream, connected, last_poll, yielded>>

\* embedded connect_ws from the select's result to the return; on_open, a
\* local, is dropped on every return, the other closures move into the stream
\* or are dropped with the Err
ConnectReturn ==
    /\ UNCHANGED clientVars
    /\ UNCHANGED fetchVars
    /\ connect_pc = "select"
    /\ SelectOutcome # "pending"
    /\ IF SelectOutcome = "left"
       THEN /\ connect_pc' = "returned_ok"
            /\ stream' = "live"
            /\ connected' = TRUE
            /\ chan_open' = "taken"
            /\ closures' = closures \ {"open"}
            /\ UNCHANGED <<chan_close, faults>>
       ELSE IF SelectOutcome = "right"
       THEN /\ connect_pc' = "returned_err"
            /\ chan_close' = "taken"
            /\ closures' = {}
            /\ UNCHANGED <<stream, connected, chan_open, faults>>
       ELSE /\ connect_pc' = "panicked"
            /\ faults' = faults \cup {"connect_ws: unwrap of Canceled"}
            /\ UNCHANGED <<stream, connected, chan_open, chan_close, closures>>
    /\ UNCHANGED <<ws_handlers, ws_close_calls, ws_sends, once_taken, chan_err,
                   msg_queue, fired, last_poll, yielded>>

\* a poll_next whose terminal items leave connected set
PollNextStaysConnected ==
    /\ UNCHANGED clientVars
    /\ UNCHANGED fetchVars
    /\ stream = "live"
    /\ IF ~connected
       THEN /\ last_poll' = "end"
            /\ UNCHANGED <<msg_queue, chan_err, chan_close, connected, yielded, faults>>
       ELSE IF msg_queue # <<>>
       THEN /\ last_poll' = "message"
            /\ yielded' = Append(yielded, Head(msg_queue))
            /\ msg_queue' = Tail(msg_queue)
            /\ UNCHANGED <<chan_err, chan_close, connected, faults>>
       ELSE IF OneshotReady(chan_err)
       THEN /\ UNCHANGED connected
            /\ IF chan_err = "sent"
               THEN /\ last_poll' = "error"
                    /\ yielded' = Append(yielded, "error")
                    /\ UNCHANGED faults
               ELSE /\ last_poll' = "panic"
                    /\ faults' = faults \cup {"poll_next: unwrap of Canceled"}
                    /\ UNCHANGED yielded
            /\ chan_err' = "taken"
            /\ UNCHANGED <<msg_queue, chan_close>>
       ELSE IF OneshotReady(chan_close)
       THEN /\ UNCHANGED connected
            /\ IF chan_close = "sent"
               THEN /\ last_poll' = "close"
                    /\ yielded' = Append(yielded, "close")
                    /\ UNCHANGED faults
               ELSE /\ last_poll' = "panic"
                    /\ faults' = faults \cup {"poll_next: unwrap of Canceled"}
                    /\ UNCHANGED yielded
            /\ chan_close' = "taken"
            /\ UNCHANGED <<msg_queue, chan_err>>
       ELSE /\ last_poll' = "pending"
            /\ UNCHANGED <<msg_queue, chan_err, chan_close, connected, yielded, faults>>
    /\ UNCHANGED <<connect_pc, ws_handlers, ws_close_calls, ws_sends, closures,
                   once_taken, chan_open, stream, fired>>

\* a poll_next that looks at the error and close channels before the queue
PollNextTerminalFirst ==
    /\ UNCHANGED clientVars
    /\ UNCHANGED fetchVars
    /\ stream = "live"
    /\ IF ~connected
       THEN /\ last_poll' = "end"
            /\ UNCHANGED <<msg_queue, chan_err, chan_close, connected, yielded, faults>>
       ELSE IF OneshotReady(chan_err)
       THEN /\ connected' = FALSE
            /\ IF chan_err = "sent"
               THEN /\ last_poll' = "error"
                    /\ yielded' = Append(yielded, "error")
                    /\ UNCHANGED faults
               ELSE /\ last_poll' = "panic"
                    /\ faults' = faults \cup {"poll_next: unwrap of Canceled"}
                    /\ UNCHANGED yielded
            /\ chan_err' = "taken"
            /\ UNCHANGED <<msg_queue, chan_close>>
       ELSE IF OneshotReady(chan_close)
       THEN /\ connected' = FALSE
            /\ IF chan_close = "sent"
               THEN /\ last_poll' = "close"
                    /\ yielded' = Append(yielded, "close")
                    /\ UNCHANGED faults
               ELSE /\ last_poll' = "panic"
                    /\ faults' = faults \cup {"poll_next: unwrap of Canceled"}
                    /\ UNCHANGED yielded
            /\ chan_close' = "taken"
            /\ UNCHANGED <<msg_queue, chan_err>>
       ELSE IF msg_queue # <<>>
       THEN /\ last_poll' = "message"
            /\ yielded' = Append(yielded, Head(msg_queue))
            /\ msg_queue' = Tail(msg_queue)
            /\ UNCHANGED <<chan_err, chan_close, connected, faults>>
       ELSE /\ last_poll' = "pending"
            /\ UNCHANGED <<msg_queue, chan_err, chan_close, connected, yielded, faults>>
    /\ UNCHANGED <<connect_pc, ws_handlers, ws_close_calls, ws_sends, closures,
                   once_taken, chan_open, stream, fired>>

\* Stream::poll_next
PollNext ==
    /\ UNCHANGED clientVars
    /\ UNCHANGED fetchVars
    /\ stream = "live"
    /\ IF ~connected
       THEN /\ last_poll' = "end"
            /\ UNCHANGED <<msg_queue, chan_err, chan_close, connected, yielded, faults>>
       ELSE IF msg_queue # <<>>
       THEN /\ last_poll' = "message"
            /\ yielded' = Append(yielded, Head(msg_queue))
            /\ msg_queue' = Tail(msg_queue)
            /\ UNCHANGED <<chan_err, chan_close, connected, faults>>
       ELSE IF OneshotReady(chan_err)
       THEN /\ connected' = FALSE
            /\ IF chan_err = "sent"
               THEN /\ last_poll' = "error"
                    /\ yielded' = Append(yielded, "error")
                    /\ UNCHANGED faults
               ELSE /\ last_poll' = "panic"
                    /\ faults' = faults \cup {"poll_next: unwrap of Canceled"}
                    /\ UNCHANGED yielded
            /\ chan_err' = "taken"
            /\ UNCHANGED <<msg_queue, chan_close>>
       ELSE IF OneshotReady(chan_close)
       THEN /\ connected' = FALSE
            /\ IF chan_close = "sent"
               THEN /\ last_poll' = "close"
                    /\ yielded' = Append(yielded, "close")
                    /\ UNCHANGED faults
               ELSE /\ last_poll' = "panic"
                    /\ faults' = faults \cup {"poll_next: unwrap of Canceled"}
                    /\ UNCHANGED yielded
            /\ chan_close' = "taken"
            /\ UNCHANGED <<msg_queue, chan_err>>
       ELSE /\ last_poll' = "pending"
            /\ UNCHANGED <<msg_queue, chan_err, chan_close, connected, yielded, faults>>
    /\ UNCHANGED <<connect_pc, ws_handlers, ws_close_calls, ws_sends, closures,
                   once_taken, chan_open, stream, fired>>

\* WsStream::close: closes the socket while connected, leaves connected set
Close ==
    /\ UNCHANGED clientVars
    /\ UNCHANGED fetchVars
    /\ stream = "live"
    /\ ws_close_calls < MaxCloseCalls
    /\ ws_close_calls' = IF connected THEN ws_close_calls + 1 ELSE ws_close_calls
    /\ UNCHANGED <<connect_pc, ws_handlers, ws_sends, closures, once_taken,
                   chan_open, chan_close, chan_err, msg_queue, stream,
                   connected, fired, faults, last_poll, yielded>>

\* Sink::start_send: the text goes to the socket, connected is not looked at
StartSend ==
    /\ UNCHANGED clientVars
    /\ UNCHANGED fetchVars
    /\ stream = "live"
    /\ ws_sends < MaxSends
    /\ ws_sends' = ws_sends + 1
    /\ UNCHANGED <<connect_pc, ws_handlers, ws_close_calls, closures,
                   once_taken, chan_open, chan_close, chan_err, msg_queue,
                   stream, connected, fired, faults, last_poll, yielded>>

\* Drop for WsStream, then the drop of its fields (closures and receivers)
Drop ==
    /\ UNCHANGED clientVars
    /\ UNCHANGED fetchVars
    /\ stream = "live"
    /\ stream' = "dropped"
    /\ IF connected
       THEN /\ ws_handlers' = ws_handlers \ {"close", "message", "error"}
            /\ ws_close_calls' = ws_close_calls + 1
       ELSE UNCHANGED <<ws_handlers, ws_close_calls>>
    /\ closures' = {}
    /\ chan_close' = "rx_dropped"
    /\ chan_err' = "rx_dropped"
    /\ msg_queue' = <<>>
    /\ UNCHANGED <<connect_pc, ws_sends, once_taken, chan_open, connected,
                   fired, faults, last_poll, yielded>>

\* ------------------------------------------------------------------ wasm.rs: callbacks that deliver
\* The values the close, error and message callbacks send are not written in
\* the source (unimplemented!()).  These three actions are the callbacks with
\* a value in that place: each sends on its channel, as the surrounding code
\* and the design (one single-producer channel per callback) have it.  They
\* serve to exercise poll_next on queued messages and terminal events.
Payloads == {"m1", "m2"}

\* on_close with a value: tx_close.send(value), once
HostCloseDelivers ==
    /\ UNCHANGED clientVars
    /\ UNCHANGED fetchVars
    /\ connect_pc # "init"
    /\ Len(fired) < MaxEvents
    /\ fired' = Append(fired, "close")
    /\ IF Dispatch("close") = "none"
       THEN UNCHANGED <<once_taken, faults, chan_close>>
       ELSE IF Dispatch("close") = "destroyed"
       THEN /\ faults' = faults \cup {"close: closure destroyed"}
            /\ UNCHANGED <<once_taken, chan_close>>
       ELSE IF "close" \in once_taken
       THEN /\ faults' = faults \cup {"close: FnOnce called more than once"}
            /\ UNCHANGED <<once_taken, chan_close>>
       ELSE /\ once_taken' = once_taken \cup {"close"}
            /\ chan_close' = OneshotSend(chan_close)
            /\ UNCHANGED faults
    /\ UNCHANGED <<connect_pc, ws_handlers, ws_close_calls, ws_sends, closures,
                   chan_open, chan_err, msg_queue, stream, connected,
                   last_poll, yielded>>

\* on_err with a value: tx_err.send(value), once
HostErrorDelivers ==
    /\ UNCHANGED clientVars
    /\ UNCHANGED fetchVars
    /\ connect_pc # "init"
    /\ Len(fired) < MaxEvents
    /\ fired' = Append(fired, "error")
    /\ IF Dispatch("error") = "none"
       THEN UNCHANGED <<once_taken, faults, chan_err>>
       ELSE IF Dispatch("error") = "destroyed"
       THEN /\ faults' = faults \cup {"error: closure destroyed"}
            /\ UNCHANGED <<once_taken, chan_err>>
       ELSE IF "error" \in once_taken
       THEN /\ faults' = faults \cup {"error: FnOnce called more than once"}
            /\ UNCHANGED <<once_taken, chan_err>>
       ELSE /\ once_taken' = once_taken \cup {"error"}
            /\ chan_err' = OneshotSend(chan_err)
            /\ UNCHANGED faults
    /\ UNCHANGED <<connect_pc, ws_handlers, ws_close_calls, ws_sends, closures,
                   chan_open, chan_close, msg_queue, stream, connected,
                   last_poll, yielded>>

\* on_message with a value: tx_message.unbounded_send(value) on every call;
\* `fired` keeps the payload of a message that reached the callback
HostMessageDelivers ==
    /\ UNCHANGED clientVars
    /\ UNCHANGED fetchVars
    /\ connect_pc # "init"
    /\ Len(fired) < MaxEvents
    /\ \E m \in Payloads :
         IF Dispatch("message") = "none"
         THEN /\ fired' = Append(fired, "message")
              /\ UNCHANGED <<faults, msg_queue>>
         ELSE IF Dispatch("message") = "destroyed"
         THEN /\ fired' = Append(fired, "message")
              /\ faults' = faults \cup {"message: closure destroyed"}
              /\ UNCHANGED msg_queue
         ELSE /\ fired' = Append(fired, m)
              /\ msg_queue' = Append(msg_queue, m)
              /\ UNCHANGED faults
    /\ UNCHANGED <<connect_pc, ws_handlers, ws_close_calls, ws_sends, closures,
                   once_taken, chan_open, chan_close, chan_err, stream,
                   connected, last_poll, yielded>>

\* ------------------------------------------------------------------ wasm.rs: request
\* A header value is a sequence of bytes: "v" stands for a visible ASCII
\* byte, "OBS" for a byte of 0x80..0xFF, which a HeaderValue may hold and
\* HeaderValue::to_str and HeaderValue::from_str refuse.
ValueBytes == {"v", "OBS"}
FetchHeaderNames == {"accept", "cookie"}
HeaderValues == SeqsUpTo(ValueBytes, MaxValueLen)
HeaderPairs == [name : FetchHeaderNames, value : HeaderValues]
FetchRequests == SeqsUpTo(HeaderPairs, MaxHeaders)

\* HeaderValue::to_str: the text of the value when every byte is visible ASCII
IsVisibleAscii(value) == \A i \in 1..Len(value) : value[i] # "OBS"

\* value.to_str().unwrap_or(""): the text handed to Headers::append
ToStrOrEmpty(value) == IF IsVisibleAscii(value) THEN value ELSE <<>>

\* what the host fetch can resolve with: Response.status is 0 for an opaque
\* or error response; header values come back as host strings
HostStatuses == {0, 200, 404}
WebResponses == [status : HostStatuses,
                 headers : SeqsUpTo(HeaderPairs, MaxRespHeaders)]
NoWebResponse == [status |-> 0, headers |-> <<>>]

FetchRes(tag, status, headers) == [tag |-> tag, status |-> status, headers |-> headers]
NoFetchResult == FetchRes("none", 0, <<>>)

\* StatusCode::from_u16 accepts 100 and above only
StatusFromU16Ok(status) == status >= 100

\* the unified Response rebuilt from the host Response: the status and every
\* header pair are converted with unwrap()
RebuildResponse(web) ==
    IF ~StatusFromU16Ok(web.status) THEN FetchRes("panic", 0, <<>>)
    ELSE IF \E i \in 1..Len(web.headers) : ~IsVisibleAscii(web.headers[i].value)
    THEN FetchRes("panic", 0, <<>>)
    ELSE FetchRes("Response", web.status, web.headers)

InitFetch ==
    /\ fetch_pc = "idle"
    /\ fetch_req = <<>>
    /\ host_headers = <<>>
    /\ fetch_calls = 0
    /\ web_response = NoWebResponse
    /\ fetch_result = NoFetchResult

\* request up to the header loop: window() or NoWindow; RequestInit and an
\* empty host Headers object are built
FetchStart ==
    /\ UNCHANGED clientVars
    /\ UNCHANGED wsVars
    /\ fetch_pc = "idle"
    /\ \E req \in FetchRequests, has_window \in BOOLEAN :
         IF has_window
         THEN /\ fetch_pc' = "headers"
              /\ fetch_req' = req
              /\ UNCHANGED fetch_result
         ELSE /\ fetch_pc' = "done"
              /\ fetch_result' = FetchRes("NoWindow", 0, <<>>)
              /\ UNCHANGED fetch_req
    /\ UNCHANGED <<host_headers, fetch_calls, web_response>>

\* one turn of the header loop: the name and the value's text (or "") are
\* appended to the host Headers; the host may throw, which ends the call
FetchAppendHeader ==
    /\ UNCHANGED clientVars
    /\ UNCHANGED wsVars
    /\ fetch_pc = "headers"
    /\ Len(host_headers) < Len(fetch_req)
    /\ LET pair == fetch_req[Len(host_headers) + 1]
       IN  \E rejected \in BOOLEAN :
             IF rejected
             THEN /\ fetch_pc' = "done"
                  /\ fetch_result' = FetchRes("ForbiddenHeader", 0, <<>>)
                  /\ UNCHANGED host_headers
             ELSE /\ host_headers' = Append(host_headers,
                        [name |-> pair.name, value |-> ToStrOrEmpty(pair.value)])
                  /\ UNCHANGED <<fetch_pc, fetch_result>>
    /\ UNCHANGED <<fetch_req, fetch_calls, web_response>>

\* after the loop: window.fetch_with_str_and_init is invoked and awaited
FetchInvoke ==
    /\ UNCHANGED clientVars
    /\ UNCHANGED wsVars
    /\ fetch_pc = "headers"
    /\ Len(host_headers) = Len(fetch_req)
    /\ fetch_pc' = "fetching"
    /\ fetch_calls' = fetch_calls + 1
    /\ UNCHANGED <<fetch_req, host_headers, web_response, fetch_result>>

\* the fetch promise settles: rejected is ReceiveResponse, else the host
\* Response is kept and array_buffer() is awaited
FetchSettle ==
    /\ UNCHANGED clientVars
    /\ UNCHANGED wsVars
    /\ fetch_pc = "fetching"
    /\ \/ /\ fetch_pc' = "done"
          /\ fetch_result' = FetchRes("ReceiveResponse", 0, <<>>)
          /\ UNCHANGED web_response
       \/ \E web \in WebResponses :
            /\ fetch_pc' = "reading"
            /\ web_response' = web
            /\ UNCHANGED fetch_result
    /\ UNCHANGED <<fetch_req, host_headers, fetch_calls>>

\* the array_buffer promise settles: rejected is ReceiveResponse, else the
\* body is copied and the unified Response is rebuilt
FetchReadBody ==
    /\ UNCHANGED clientVars
    /\ UNCHANGED wsVars
    /\ fetch_pc = "reading"
    /\ fetch_pc' = "done"
    /\ \E body_ok \in BOOLEAN :
         fetch_result' = IF body_ok THEN RebuildResponse(web_response)
                         ELSE FetchRes("ReceiveResponse", 0, <<>>)
    /\ UNCHANGED <<fetch_req, host_headers, fetch_calls, web_response>>

\* the caller takes the result; the client is ready for the next request
FetchReturn ==
    /\ UNCHANGED clientVars
    /\ UNCHANGED wsVars
    /\ fetch_pc = "done"
    /\ fetch_pc' = "idle"
    /\ fetch_req' = <<>>
    /\ host_headers' = <<>>
    /\ fetch_calls' = 0
    /\ web_response' = NoWebResponse
    /\ fetch_result' = NoFetchResult

\* ------------------------------------------------------------------ specifications
Init == InitClient /\ InitWs /\ InitFetch

\* the client: lib.rs and the native backend
Next ==
    \/ SetAccessToken
    \/ RequestSend
    \/ RequestComplete
    \/ NativeRequestSend
    \/ NativeRequestComplete
    \/ ConnectWsSend
    \/ ConnectWsHandshake
    \/ ConnectWsUpgrade
    \/ Return
Spec == Init /\ [][Next]_vars

\* the embedded backend's WebSocket
NextWs ==
    \/ ConnectWs
    \/ HostOpen
    \/ HostClose
    \/ HostError
    \/ HostMessage
    \/ ConnectReturn
    \/ PollNext
    \/ Close
    \/ StartSend
    \/ Drop
SpecWs == Init /\ [][NextWs]_vars

\* the embedded backend's request
NextFetch ==
    \/ FetchStart
    \/ FetchAppendHeader
    \/ FetchInvoke
    \/ FetchSettle
    \/ FetchReadBody
    \/ FetchReturn
SpecFetch == Init /\ [][NextFetch]_vars

\* the embedded backend's WebSocket with callbacks that deliver
NextStream ==
    \/ ConnectWs
    \/ HostOpen
    \/ HostCloseDelivers
    \/ HostErrorDelivers
    \/ HostMessageDelivers
    \/ ConnectReturn
    \/ PollNext
    \/ Close
    \/ StartSend
    \/ Drop
SpecStream == Init /\ [][NextStream]_vars

\* ------------------------------------------------------------------ claims: the client
\* a call of get_response or get_json has handed its request to the transport
Transmitting == pc = "awaiting" /\ fn \in {"get_response", "get_json"}
\* a call of get_response or get_json has returned on a response head
Answered == pc = "done" /\ fn \in {"get_response", "get_json"} /\ response.ok
\* the string holds no byte a header value must not hold
IsHeaderValue(s) == \A i \in 1..Len(s) : s[i] \notin CtlChars
OtherHeadersKept == \A n \in HeaderNames \ {"authorization"} : in_flight[n] = req_in[n]
TwoHundreds(status) == status \div 100 = 2

EnvelopeMembers(body) ==
    {i \in 1..Len(body.pairs) : body.pairs[i].k \in {"error", "message"}}
\* the body is the error envelope: the field once, as a string (or, as serde
\* reads a struct, a one-element array of a string)
IsEnvelope(body) ==
    \/ /\ body.kind = "object"
       /\ Cardinality(EnvelopeMembers(body)) = 1
       /\ \A i \in EnvelopeMembers(body) : body.pairs[i].v.t = "str"
    \/ /\ body.kind = "array"
       /\ Len(body.items) = 1
       /\ body.items[1].t = "str"
EnvelopeMessage(body) ==
    IF body.kind = "array" THEN body.items[1].s
    ELSE LET i == CHOOSE j \in EnvelopeMembers(body) : TRUE IN body.pairs[i].v.s

\* C3: a response with a non-2xx status gives an Api error with that status
\* and the envelope's message when the buffered body decodes as the envelope,
\* a Status error with that status otherwise, and never a success.
C3_FailureClassification ==
    (Answered /\ ~TwoHundreds(response.status)) =>
        /\ result.tag \in {"Api", "Status"}
        /\ result.status = response.status
        /\ IF response.body_ok /\ IsEnvelope(response.body)
           THEN result.tag = "Api" /\ result.message = EnvelopeMessage(response.body)
           ELSE result.tag = "Status"

\* a 404 whose body is {"message":"X"} came back as the Api error "X"
C3_Witness ==
    /\ Answered
    /\ response.status = 404
    /\ response.body = Doc("object", <<[k |-> "message", v |-> [t |-> "str", s |-> "X"]]>>, <<>>)
    /\ result = Res("Api", 404, "X", TRUE)

\* the members of an object that name the requested struct's field
ShapeMembers(body) == {i \in 1..Len(body.pairs) : body.pairs[i].k = "id"}
MatchesShape(body) ==
    \/ /\ body.kind = "object"
       /\ Cardinality(ShapeMembers(body)) = 1
       /\ \A i \in ShapeMembers(body) : body.pairs[i].v.t = "str"
    \/ /\ body.kind = "array"
       /\ Len(body.items) = 1
       /\ body.items[1].t = "str"
ShapeValue(body) ==
    IF body.kind = "array" THEN body.items[1].s
    ELSE LET i == CHOOSE j \in ShapeMembers(body) : TRUE IN body.pairs[i].v.s

\* C4: on a 2xx status get_response returns the response with its body
\* unread; get_json returns the decoded value when the buffered body matches
\* the requested shape and a Json error when it does not; neither returns a
\* Status or an Api error.
C4_SuccessClassification ==
    (Answered /\ TwoHundreds(response.status)) =>
        /\ result.tag \notin {"Status", "Api"}
        /\ fn = "get_response" => result = Res("Response", response.status, "", FALSE)
        /\ (fn = "get_json" /\ response.body_ok) =>
            IF MatchesShape(response.body)
            THEN result = Res("Value", response.status, ShapeValue(response.body), TRUE)
            ELSE result.tag = "Json"

\* a 200 whose body is valid JSON of another shape came back from get_json as
\* a Json error
C4_Witness ==
    /\ Answered
    /\ fn = "get_json"
    /\ response.status = 200
    /\ response.body = Doc("object", <<[k |-> "error", v |-> [t |-> "str", s |-> "X"]]>>, <<>>)
    /\ result.tag = "Json"

\* C5: native connect_ws goes on to the upgrade, and can return a stream,
\* only on status 101; on every other status it returns a Status error with
\* that status and never attempts the upgrade.
C5_OnlySwitchingProtocolsUpgrades ==
    /\ (fn = "connect_ws" /\ pc \in {"upgrading", "done"} /\ response.ok) =>
        IF response.status = 101
        THEN upgrade_attempted /\ (pc = "done" => result.tag \in {"Stream", "Download"})
        ELSE /\ pc = "done"
             /\ result = Res("Status", response.status, "", FALSE)
             /\ ~upgrade_attempted
    /\ result.tag = "Stream" => (response.ok /\ response.status = 101)
    /\ (fn = "connect_ws" /\ ~response.ok) => ~upgrade_attempted

\* a handshake answered 200 OK was rejected with Status 200
C5_Witness ==
    /\ fn = "connect_ws"
    /\ response.ok
    /\ response.status = 200
    /\ result = Res("Status", 200, "", FALSE)
    /\ ~upgrade_attempted

\* C15: a call whose transport failed before any response head returns a
\* transport error (Download from get_response, get_json and connect_ws, the
\* transport's own error from the native request), also when connect_ws fails
\* in the upgrade step; Status, Api and Json are returned only on a response
\* head.
C15_TransportFailureIsDownload ==
    /\ (pc = "done" /\ ~response.ok) => result.tag \in {"Download", "Transport"}
    /\ (pc = "done" /\ upgrade_attempted /\ result.tag # "Stream") => result.tag = "Download"
    /\ result.tag \in {"Status", "Api", "Json"} => response.ok
C15_Witness ==
    /\ pc = "done"
    /\ fn = "get_json"
    /\ ~response.ok
    /\ result = Res("Download", 0, "", FALSE)

\* C16: the native request returns the response it got as it is, whatever the
\* status and with the body unread; an Api or Status error comes only from the
\* calls that classify (get_response, get_json) or from connect_ws.
C16_RequestReturnsRawResponse ==
    /\ (pc = "done" /\ fn = "request" /\ response.ok)
         => result = Res("Response", response.status, "", FALSE)
    /\ result.tag \in {"Status", "Api"} => fn \in {"get_response", "get_json", "connect_ws"}
C16_Witness ==
    /\ pc = "done"
    /\ fn = "request"
    /\ response.ok
    /\ response.status = 404
    /\ IsEnvelope(response.body)
    /\ result = Res("Response", 404, "", FALSE)

HasKey(body, key) ==
    body.kind = "object" /\ \E i \in 1..Len(body.pairs) : body.pairs[i].k = key
\* a non-2xx answer whose body holds both an "error" and a "message" member
BothKeysAnswer ==
    /\ Answered
    /\ ~is_success(response.status)
    /\ response.body_ok
    /\ HasKey(response.body, "error")
    /\ HasKey(response.body, "message")

\* C18 (as stated): a non-2xx body with both an "error" and a "message" member
\* yields an Api error whose message is the value of the member that comes
\* first.
C18_FirstKeyWins ==
    BothKeysAnswer =>
        /\ result.tag = "Api"
        /\ result.message = response.body.pairs[1].v.s

\* C18 (amended): a non-2xx body with both an "error" and a "message" member
\* does not decode as the envelope (the field is given twice) and yields the
\* Status error carrying the status, never an Api error.
C18_BothKeysIsStatus ==
    BothKeysAnswer => result = Res("Status", response.status, "", TRUE)
C18_Witness ==
    /\ BothKeysAnswer
    /\ response.status = 404
    /\ response.body.pairs[1] = [k |-> "error", v |-> [t |-> "str", s |-> "X"]]
    /\ response.body.pairs[2] = [k |-> "message", v |-> [t |-> "str", s |-> "Y"]]
    /\ result = Res("Status", 404, "", TRUE)

\* ------------------------------------------------------------------ claims: the embedded WebSocket
\* the host fired `a`, and had not fired `b` by then
FiredBefore(a, b) ==
    \E i \in 1..Len(fired) : fired[i] = a /\ \A j \in 1..(i - 1) : fired[j] # b
\* the host fired `a` after it first fired "open"
FiredAfterOpen(a) ==
    \E i, j \in 1..Len(fired) : i < j /\ fired[i] = "open" /\ fired[j] = a
\* "open" was the first of open, close and error to fire
OpenFiredFirst == FiredBefore("open", "close") /\ FiredBefore("open", "error")
\* connect_ws has returned an error, or its select is about to
ConnectFails ==
    \/ connect_pc = "returned_err"
    \/ connect_pc = "select" /\ SelectOutcome = "right"
Channel(ev) == IF ev = "close" THEN chan_close ELSE chan_err
TimesYielded(ev) == Cardinality({i \in 1..Len(yielded) : yielded[i] = ev})

\* C6: when the host fires "close" before "open", connect_ws returns an error
\* and no WsStream is ever produced.
C6_CloseBeforeOpenFails ==
    FiredBefore("close", "open") => (stream = "none" /\ ConnectFails)

\* C7: when the host fires "error" before "open", connect_ws fails with an
\* error and no WsStream is produced, whether or not "open" fires afterwards.
C7_ErrorBeforeOpenFails ==
    FiredBefore("error", "open") => (stream = "none" /\ ConnectFails)

\* C8: when "open" fires first a stream is returned, and every close and error
\* event fired afterwards is delivered through poll_next once, in the order of
\* firing: while the stream lives, such an event was yielded once or waits in
\* its channel for the next poll.
C8_TerminalEventsDelivered ==
    (OpenFiredFirst /\ stream = "live") =>
        /\ \A ev \in {"close", "error"} :
            /\ TimesYielded(ev) <= 1
            /\ FiredAfterOpen(ev) =>
                \/ TimesYielded(ev) = 1
                \/ Channel(ev) = "sent"
        /\ \A i, j \in 1..Len(yielded) :
            (i < j /\ yielded[i] \in {"close", "error"} /\ yielded[j] \in {"close", "error"})
                => FiredBefore(yielded[i], yielded[j])

\* C9: for a stream that reached Open the host's close operation has been
\* invoked once in total when the stream is dropped, whatever explicit close()
\* calls, polls and host events came before the drop.
C9_ClosedExactlyOnce ==
    stream = "dropped" => ws_close_calls = 1

\* C10: after a stream that was Open has been dropped, no callback of the
\* connection remains registered on the host object.
C10_NoCallbackAfterDrop ==
    stream = "dropped" => ws_handlers = {}

\* the messages poll_next yielded, in order
YieldedMessages == SelectSeq(yielded, LAMBDA x : x \notin {"error", "close"})
\* how many "message" events the host fired after it first fired "open"
MessagesFiredAfterOpen ==
    Cardinality({j \in 1..Len(fired) :
        fired[j] = "message" /\ \E i \in 1..(j - 1) : fired[i] = "open"})
\* the faults that are panics of this crate's code (the others are exceptions
\* the host glue throws for a closure that is gone or already used)
Panics == {"on_close: not implemented", "on_err: not implemented",
           "on_message: not implemented", "connect_ws: unwrap of Canceled",
           "poll_next: unwrap of Canceled"}

C12_NoPanicOnHostEvents ==
    faults \cap Panics = {}

\* C13: start_send forwards the text to the host object only while the stream
\* is Open; after close(), or once poll_next has cleared connected, nothing is
\* forwarded.
C13_NoSendUnlessOpen ==
    [][(stream = "live" /\ (~connected \/ ws_close_calls > 0)) => ws_sends' = ws_sends]_vars

\* ------------------------------------------------------------------ claims: the embedded request
\* C14: a header the host rejects ends the call with ForbiddenHeader before
\* the host fetch is invoked, and a request whose headers were all accepted
\* reaches the host fetch with every name/value pair of the request, none
\* dropped or altered.
C14_HeadersPassedOrForbidden ==
    /\ fetch_result.tag = "ForbiddenHeader" => fetch_calls = 0
    /\ fetch_calls > 0 => host_headers = fetch_req

\* ------------------------------------------------------------------ claims: poll_next on delivered events
TerminalItems == {"error", "close"}
\* the positions of `yielded` that hold a terminal item
TerminalsYielded == {i \in 1..Len(yielded) : yielded[i] \in TerminalItems}
\* the messages that reached the message callback, in order
DeliveredMessages == SelectSeq(fired, LAMBDA x : x \in Payloads)

====
